---- MODULE Spec2Model ----
(***************************************************************************)
(* Cohort analysis tool (cohort-analysis-run.py): the Streamlit session    *)
(* (upload, cohort settings, date range, segmentation, visualization) and  *)
(* the retention engine create_cohort_data.                                *)
(*                                                                         *)
(* Time.  A value of the `date` column is a pandas Timestamp; it is        *)
(* modelled as a number of hours since 2024-01-01 00:00, a Monday.  A      *)
(* datetime.date (the date pickers, date_range) is a number of days since  *)
(* 2024-01-01.  Text (cohort keys) is a sequence of one-character strings, *)
(* so that formatting, parsing and Python's string order are computed.     *)
(* A rate is the exact fraction <<numerator, denominator>>; the rounding   *)
(* of Python floats is not modelled.                                       *)
(***************************************************************************)
EXTENDS Integers, Sequences, FiniteSets, TLC

(* ------------------------------ bounds -------------------------------- *)

\* customers are 1..NumCustomers
NumCustomers == 2

\* largest number of rows of an event table handed to create_cohort_data
MaxEvents == 2

\* largest number of rows of a CSV file uploaded in the session machine
MaxUploadEvents == 1

(* ------------------------- program constants -------------------------- *)

\* range(13): periods 0..12
NumPeriods == 13

(* ----------------------------- calendar ------------------------------- *)

IsLeap(y) == (y % 4 = 0 /\ y % 100 # 0) \/ y % 400 = 0

DaysInMonth(y, m) ==
    IF m = 2 THEN (IF IsLeap(y) THEN 29 ELSE 28)
    ELSE IF m \in {4, 6, 9, 11} THEN 30 ELSE 31

DaysInYear(y) == IF IsLeap(y) THEN 366 ELSE 365

RECURSIVE DaysBeforeYear(_)
DaysBeforeYear(y) ==
    IF y <= 2024 THEN 0 ELSE DaysBeforeYear(y - 1) + DaysInYear(y - 1)

RECURSIVE DaysBeforeMonth(_, _)
DaysBeforeMonth(y, m) ==
    IF m <= 1 THEN 0 ELSE DaysBeforeMonth(y, m - 1) + DaysInMonth(y, m - 1)

\* a calendar date that exists
ValidCivil(y, m, d) ==
    /\ y >= 2024
    /\ m \in 1..12
    /\ d \in 1..DaysInMonth(y, m)

\* days since 2024-01-01 of the calendar date y-m-d
DaysFromCivil(y, m, d) == DaysBeforeYear(y) + DaysBeforeMonth(y, m) + (d - 1)

RECURSIVE YearOfDay(_, _)
YearOfDay(n, y) ==
    IF n < DaysBeforeYear(y + 1) THEN y ELSE YearOfDay(n, y + 1)

RECURSIVE MonthOfDay(_, _, _)
MonthOfDay(n, y, m) ==
    IF n < DaysBeforeYear(y) + DaysBeforeMonth(y, m + 1) THEN m
    ELSE MonthOfDay(n, y, m + 1)

\* the calendar date <<y, m, d>> of day number n
CivilFromDays(n) ==
    LET y == YearOfDay(n, 2024)
        m == MonthOfDay(n, y, 1)
    IN  <<y, m, n - DaysBeforeYear(y) - DaysBeforeMonth(y, m) + 1>>

\* Timestamp.date(): the calendar day (a day number) of a timestamp
DateOf(ts) == ts \div 24

\* pd.Timestamp(d) of a datetime.date: midnight at the start of that day
Timestamp(day) == day * 24

\* ts + pd.Timedelta(days = n)
AddDays(ts, n) == ts + n * 24

\* AddMonths with a month taken as a block of 30 days
AddMonths_Fixed30(ts, n) == ts + n * 30 * 24

\* ts + pd.DateOffset(months = n): the same day of month and time of day n
\* calendar months later, the day clipped to the length of the target month
AddMonths(ts, n) ==
    LET c == CivilFromDays(DateOf(ts))
        k == (c[2] - 1) + n
        y == c[1] + (k \div 12)
        m == (k % 12) + 1
        d == IF c[3] > DaysInMonth(y, m) THEN DaysInMonth(y, m) ELSE c[3]
    IN  Timestamp(DaysFromCivil(y, m, d)) + (ts % 24)

(* ------------------------------- text --------------------------------- *)

Digits == <<"0", "1", "2", "3", "4", "5", "6", "7", "8", "9">>

DigitChar(d) == Digits[d + 1]

DigitVal(ch) == (CHOOSE i \in 1..10 : Digits[i] = ch) - 1

\* the code point of a character of a cohort key
Ord(ch) ==
    IF ch = "-" THEN 45
    ELSE IF ch = "/" THEN 47
    ELSE 48 + DigitVal(ch)

\* n written in decimal, zero-padded to width w
RECURSIVE Pad(_, _)
Pad(n, w) == IF w = 0 THEN <<>> ELSE Append(Pad(n \div 10, w - 1), DigitChar(n % 10))

\* int() of a string of digits
RECURSIVE ParseInt(_)
ParseInt(s) ==
    IF s = <<>> THEN 0
    ELSE ParseInt(SubSeq(s, 1, Len(s) - 1)) * 10 + DigitVal(s[Len(s)])

\* Python's a < b on str: lexicographic by code point, a proper prefix first
RECURSIVE StrLess(_, _)
StrLess(a, b) ==
    IF b = <<>> THEN FALSE
    ELSE IF a = <<>> THEN TRUE
    ELSE IF Ord(Head(a)) # Ord(Head(b)) THEN Ord(Head(a)) < Ord(Head(b))
    ELSE StrLess(Tail(a), Tail(b))

\* sorted(S) for a set S of distinct strings
RECURSIVE sorted(_)
sorted(S) ==
    IF S = {} THEN <<>>
    ELSE LET lo == CHOOSE a \in S : \A b \in S \ {a} : StrLess(a, b)
         IN  <<lo>> \o sorted(S \ {lo})

\* Series.dt.strftime('%Y-%m-%d')
strftime(ts) ==
    LET c == CivilFromDays(DateOf(ts))
    IN  Pad(c[1], 4) \o <<"-">> \o Pad(c[2], 2) \o <<"-">> \o Pad(c[3], 2)

\* first day (a day number) of the Monday..Sunday week holding day n
WeekStartDay(n) == n - (n % 7)

\* Series.dt.to_period('W').astype(str): 'W' is W-SUN, printed start/end
to_period_W_str(ts) ==
    LET s == WeekStartDay(DateOf(ts))
    IN  strftime(Timestamp(s)) \o <<"/">> \o strftime(Timestamp(s + 6))

\* Series.dt.to_period('M').astype(str): YYYY-MM
to_period_M_str(ts) ==
    LET c == CivilFromDays(DateOf(ts))
    IN  Pad(c[1], 4) \o <<"-">> \o Pad(c[2], 2)

\* the calendar date written at positions i..i+9 of s as YYYY-MM-DD
ParseYmd(s, i) ==
    <<ParseInt(SubSeq(s, i, i + 3)), ParseInt(SubSeq(s, i + 5, i + 6)),
      ParseInt(SubSeq(s, i + 8, i + 9))>>

\* pd.to_datetime(cohort) of a Daily cohort key YYYY-MM-DD
to_datetime(cohort) ==
    LET c == ParseYmd(cohort, 1)
    IN  Timestamp(DaysFromCivil(c[1], c[2], c[3]))

\* pd.Period(cohort) raises ValueError: a start/end key whose two dates are
\* not six days apart (pandas _parse_weekly_str, pandas 2.0 and later)
PeriodRaises(cohort) ==
    /\ Len(cohort) = 21
    /\ LET a == ParseYmd(cohort, 1)
           b == ParseYmd(cohort, 12)
       IN  DaysFromCivil(b[1], b[2], b[3]) - DaysFromCivil(a[1], a[2], a[3]) # 6

\* pd.Period(cohort).to_timestamp(): the start of the period the key names.
\* YYYY-MM is the month period, start = first day of the month; start/end is
\* the weekly period that ends on the day `end`, start = end - 6 days.
PeriodToTimestamp(cohort) ==
    IF Len(cohort) = 21
    THEN LET b == ParseYmd(cohort, 12)
         IN  Timestamp(DaysFromCivil(b[1], b[2], b[3]) - 6)
    ELSE Timestamp(DaysFromCivil(ParseInt(SubSeq(cohort, 1, 4)),
                                 ParseInt(SubSeq(cohort, 6, 7)), 1))

(* ------------------------------ rates --------------------------------- *)

\* retained_users / cohort_size, kept as an exact fraction
Divide(n, d) == <<n, d>>

\* 1 - rate
OneMinus(r) == <<r[2] - r[1], r[2]>>

(* --------------------------- create_cohort_data ----------------------- *)

\* filtered_data without the lower bound on the date
filtered_data_NoLowerBound(data, cohort_settings, date_range) ==
    {e \in data.rows :
        /\ e.date <= Timestamp(date_range.end)
        /\ e.event_type = cohort_settings.cohort_basis}

\* rows with date in [start, end] and event_type == cohort_basis
filtered_data(data, cohort_settings, date_range) ==
    {e \in data.rows :
        /\ e.date >= Timestamp(date_range.start)
        /\ e.date <= Timestamp(date_range.end)
        /\ e.event_type = cohort_settings.cohort_basis}

\* Series.min() of a non-empty set of timestamps
Min(S) == CHOOSE x \in S : \A y \in S : x <= y

\* the cohort label of an anchor timestamp, per cohort_type
CohortKey(cohort_type, ts) ==
    IF cohort_type = "Daily" THEN strftime(ts)
    ELSE IF cohort_type = "Weekly" THEN to_period_W_str(ts)
    ELSE to_period_M_str(ts)

\* filtered_data.groupby('customer_id')['date'].min().reset_index() with the
\* 'cohort' column added: one row per customer of filtered_data
cohort_data_of(data, cohort_settings, date_range) ==
    LET Anchor(customer_id, date) ==
            [customer_id |-> customer_id,
             date        |-> date,
             cohort      |-> CohortKey(cohort_settings.cohort_type, date)]
        GroupByMin(filtered) ==
            {Anchor(c, Min({e.date : e \in {x \in filtered : x.customer_id = c}})) :
                c \in {e.customer_id : e \in filtered}}
    IN  GroupByMin(filtered_data(data, cohort_settings, date_range))

\* data[data['event_type'] == retention_event]
retention_events_of(data, cohort_settings) ==
    {e \in data.rows : e.event_type = cohort_settings.retention_event}

\* data['segment'] raises KeyError: a segment other than 'All' is looked up
\* in a table that has no segment column
SegmentRaises(data, segment) ==
    segment # "All" /\ "segment" \notin data.columns

\* segment_cohorts_of with the segment filter left out
segment_cohorts_of_Unfiltered(data, cohort_data, segment) == cohort_data

\* the rows of cohort_data the segment keeps
segment_cohorts_of(data, cohort_data, segment) ==
    IF segment # "All"
    THEN {r \in cohort_data :
            r.customer_id \in {e.customer_id : e \in {x \in data.rows : x.segment = segment}}}
    ELSE cohort_data

\* segment_cohorts[segment_cohorts['cohort'] == cohort]['customer_id']
cohort_users_of(segment_cohorts, cohort) ==
    {r.customer_id : r \in {x \in segment_cohorts : x.cohort = cohort}}

\* the start of a cohort, parsed back from its key
CohortStart(cohort_type, cohort) ==
    IF cohort_type = "Daily" THEN to_datetime(cohort)
    ELSE PeriodToTimestamp(cohort)

PeriodStart(cohort_type, cohort_start, period) ==
    IF cohort_type = "Daily" THEN AddDays(cohort_start, period)
    ELSE IF cohort_type = "Weekly" THEN AddDays(cohort_start, 7 * period)
    ELSE AddMonths(cohort_start, period)

PeriodEnd(cohort_type, period_start) ==
    IF cohort_type = "Daily" THEN AddDays(period_start, 1)
    ELSE IF cohort_type = "Weekly" THEN AddDays(period_start, 7)
    ELSE AddMonths(period_start, 1)

\* RetainedUsers with the window closed at period_end
RetainedUsers_ClosedEnd(retention_events, cohort_users, period_start, period_end) ==
    Cardinality({e.customer_id : e \in
        {x \in retention_events :
            /\ x.customer_id \in cohort_users
            /\ x.date >= period_start
            /\ x.date <= period_end}})

\* RetainedUsers counting the events (len) instead of the customers (nunique)
RetainedUsers_CountEvents(retention_events, cohort_users, period_start, period_end) ==
    Cardinality({x \in retention_events :
                    /\ x.customer_id \in cohort_users
                    /\ x.date >= period_start
                    /\ x.date < period_end})

\* nunique of the customers of cohort_users with a retention event in
\* [period_start, period_end)
RetainedUsers(retention_events, cohort_users, period_start, period_end) ==
    Cardinality({e.customer_id : e \in
        {x \in retention_events :
            /\ x.customer_id \in cohort_users
            /\ x.date >= period_start
            /\ x.date < period_end}})

\* Rate without the inversion of Churn Rate mode
Rate_NoInversion(retention_type, retained_users, cohort_size) ==
    Divide(retained_users, cohort_size)

\* rate, inverted in Churn Rate mode
Rate(retention_type, retained_users, cohort_size) ==
    IF retention_type = "Churn Rate"
    THEN OneMinus(Divide(retained_users, cohort_size))
    ELSE Divide(retained_users, cohort_size)

\* one pass of the period loop: the dict appended to retention_data, with
\* the loop's locals period_start and period_end kept beside it
PeriodStep(retention_events, cohort_settings, segment, cohort, cohort_users, cohort_size, cohort_start, period) ==
    LET Emit(period_start, period_end, retained_users) ==
            [row |-> [cohort         |-> cohort,
                      period         |-> period,
                      rate           |-> Rate(cohort_settings.retention_type,
                                              retained_users, cohort_size),
                      segment        |-> segment,
                      cohort_size    |-> cohort_size,
                      retained_users |-> retained_users],
             period_start |-> period_start,
             period_end   |-> period_end]
        Count(period_start, period_end) ==
            Emit(period_start, period_end,
                 RetainedUsers(retention_events, cohort_users, period_start, period_end))
        Window(period_start) ==
            Count(period_start, PeriodEnd(cohort_settings.cohort_type, period_start))
    IN  Window(PeriodStart(cohort_settings.cohort_type, cohort_start, period))

\* PeriodLoop over range(12)
PeriodLoop_Range12(retention_events, cohort_settings, segment, cohort, cohort_users, cohort_size, cohort_start) ==
    [i \in 1..(NumPeriods - 1) |->
        PeriodStep(retention_events, cohort_settings, segment, cohort, cohort_users,
                   cohort_size, cohort_start, i - 1)]

\* for period in range(13)
PeriodLoop(retention_events, cohort_settings, segment, cohort, cohort_users, cohort_size, cohort_start) ==
    [i \in 1..NumPeriods |->
        PeriodStep(retention_events, cohort_settings, segment, cohort, cohort_users,
                   cohort_size, cohort_start, i - 1)]

\* the body of the cohort loop for one cohort: nothing when cohort_size == 0
CohortStep(retention_events, cohort_settings, segment, segment_cohorts, cohort) ==
    LET Sized(cohort_users, cohort_size) ==
            IF cohort_size = 0 THEN <<>>
            ELSE PeriodLoop(retention_events, cohort_settings, segment, cohort,
                            cohort_users, cohort_size,
                            CohortStart(cohort_settings.cohort_type, cohort))
        Users(cohort_users) == Sized(cohort_users, Cardinality(cohort_users))
    IN  Users(cohort_users_of(segment_cohorts, cohort))

\* for cohort in <cohorts>, in the order of the sequence
RECURSIVE CohortLoop(_, _, _, _, _)
CohortLoop(retention_events, cohort_settings, segment, segment_cohorts, cohorts) ==
    IF cohorts = <<>> THEN <<>>
    ELSE CohortStep(retention_events, cohort_settings, segment, segment_cohorts,
                    Head(cohorts))
         \o CohortLoop(retention_events, cohort_settings, segment, segment_cohorts,
                       Tail(cohorts))

\* CohortOrder with the keys in descending order
CohortOrder_Descending(segment_cohorts) ==
    LET up == sorted({r.cohort : r \in segment_cohorts})
    IN  [i \in 1..Len(up) |-> up[Len(up) + 1 - i]]

\* the order the cohort loop visits the cohort keys of a segment
CohortOrder(segment_cohorts) == sorted({r.cohort : r \in segment_cohorts})

\* the body of the segment loop for one segment
SegmentStep(data, retention_events, cohort_settings, cohort_data, segment) ==
    LET Cohorts(segment_cohorts) ==
            CohortLoop(retention_events, cohort_settings, segment, segment_cohorts,
                       CohortOrder(segment_cohorts))
    IN  Cohorts(segment_cohorts_of(data, cohort_data, segment))

\* for segment in segments
RECURSIVE SegmentLoop(_, _, _, _, _)
SegmentLoop(data, retention_events, cohort_settings, cohort_data, segments) ==
    IF segments = <<>> THEN <<>>
    ELSE SegmentStep(data, retention_events, cohort_settings, cohort_data,
                     Head(segments))
         \o SegmentLoop(data, retention_events, cohort_settings, cohort_data,
                        Tail(segments))

\* an exception is raised inside the try block
Raises(data, cohort_settings, cohort_data, segments) ==
    \/ \E i \in 1..Len(segments) : SegmentRaises(data, segments[i])
    \/ /\ cohort_settings.cohort_type # "Daily"
       /\ \E r \in cohort_data : PeriodRaises(r.cohort)

\* the keys of the dicts appended to retention_data
RecordColumns == {"cohort", "period", "rate", "segment", "cohort_size", "retained_users"}

\* pd.DataFrame(list of dicts): no columns at all when the list is empty
DataFrame(rows) ==
    [columns |-> IF rows = <<>> THEN {} ELSE RecordColumns, rows |-> rows]

\* create_cohort_data: the returned frame, whether the except branch ran
\* (raised, which shows the st.error), and the locals cohort_data and the
\* period windows of the rows in the order they were appended
create_cohort_data(data, cohort_settings, date_range, segments) ==
    LET Collect(cohort_data, steps) ==
            [frame       |-> DataFrame([i \in 1..Len(steps) |-> steps[i].row]),
             raised      |-> FALSE,
             cohort_data |-> cohort_data,
             windows     |-> [i \in 1..Len(steps) |->
                                <<steps[i].period_start, steps[i].period_end>>]]
        Try(cohort_data) ==
            IF Raises(data, cohort_settings, cohort_data, segments)
            THEN [frame       |-> DataFrame(<<>>),
                  raised      |-> TRUE,
                  cohort_data |-> cohort_data,
                  windows     |-> <<>>]
            ELSE Collect(cohort_data,
                         SegmentLoop(data, retention_events_of(data, cohort_settings),
                                     cohort_settings, cohort_data, segments))
    IN  Try(cohort_data_of(data, cohort_settings, date_range))

(* --------------------------- the input tables ------------------------- *)

Customers == 1..NumCustomers

EventTypes == {"signup", "login"}

SegmentLabels == {"A", "B"}

\* the cells of the date column of the CSV files: <<year, month, day, hour>>.
\* 2024-01-31 12:00 is a Wednesday noon; 2024-02-01 00:00 the first instant
\* of the next day and of the next month, in the same Monday..Sunday week;
\* 2024-02-05 00:00 the first instant of the next week.
CsvDates == {<<2024, 1, 31, 12>>, <<2024, 2, 1, 0>>, <<2024, 2, 5, 0>>}

RequiredColumns == {"customer_id", "date", "event_type"}

\* the rows a CSV file can hold; a file without a segment column carries ""
CsvRows(hasSegment) ==
    [customer_id : Customers, date : CsvDates, event_type : EventTypes,
     segment : IF hasSegment THEN SegmentLabels ELSE {""}]

\* the subsets of S with at most n elements
RECURSIVE SubsetsUpTo(_, _)
SubsetsUpTo(S, n) ==
    IF n = 0 THEN {{}}
    ELSE LET T == SubsetsUpTo(S, n - 1)
         IN  T \cup {t \cup {x} : t \in T, x \in S}

\* the well-formed CSV files of 1..n rows, with and without a segment column
CsvFiles(n) ==
    {[columns |-> RequiredColumns \cup {"segment"}, rows |-> r] :
        r \in SubsetsUpTo(CsvRows(TRUE), n) \ {{}}}
    \cup
    {[columns |-> RequiredColumns, rows |-> r] :
        r \in SubsetsUpTo(CsvRows(FALSE), n) \ {{}}}

\* a CSV file without the event_type column
MissingColumnFile ==
    [columns |-> {"customer_id", "date", "segment"},
     rows |-> {[customer_id |-> 1, date |-> <<2024, 1, 31, 12>>,
                event_type |-> "", segment |-> "A"]}]

\* a CSV file whose date column holds 2024-02-30
UnparseableFile ==
    [columns |-> RequiredColumns,
     rows |-> {[customer_id |-> 1, date |-> <<2024, 2, 30, 0>>,
                event_type |-> "signup", segment |-> ""]}]

\* a CSV file that holds the header line alone
HeaderOnlyFile == [columns |-> RequiredColumns, rows |-> {}]

\* data['date'].min().date() raises: the minimum of an empty column is NaT,
\* and NaT has no date(); session_state.data is already assigned by then
StatsRaise(file) == file.rows = {}

\* pd.to_datetime(data['date']) raises: a cell is no calendar date
ToDatetimeRaises(file) ==
    \E r \in file.rows : ~ValidCivil(r.date[1], r.date[2], r.date[3])

\* data['date'] = pd.to_datetime(data['date']): the cells become Timestamps
ParseDates(file) ==
    [columns |-> file.columns,
     rows |-> {[customer_id |-> r.customer_id,
                date |-> Timestamp(DaysFromCivil(r.date[1], r.date[2], r.date[3])) + r.date[4],
                event_type |-> r.event_type,
                segment |-> r.segment] : r \in file.rows}]

(* ------------------------------ session ------------------------------- *)

VARIABLES
    data,             \* st.session_state.data: None or the event table
    cohort_settings,  \* st.session_state.cohort_settings: {} or the saved dict
    date_range,       \* st.session_state.date_range: {} or {start, end}
    segments,         \* st.session_state.segments: list of segment labels
    retention_data,   \* visualization's local: the frame create_cohort_data returned
    raised,           \* create_cohort_data took its except branch in this rerun
    cohort_data,      \* create_cohort_data's local cohort_data in this rerun
    windows,          \* <<period_start, period_end>> of each appended row
    shown,            \* the st.warning / st.error messages of this rerun
    uncaught          \* the exception that ended this rerun's script, or ""

session == <<data, cohort_settings, date_range, segments>>

vars == <<data, cohort_settings, date_range, segments,
          retention_data, raised, cohort_data, windows, shown, uncaught>>

None == [type |-> "NoneType"]

\* {} and []
EmptyDict == <<>>
EmptyList == <<>>

\* a local that this rerun never bound
Unbound == [type |-> "unbound"]

\* a rerun that does not call create_cohort_data
NoAnalysis ==
    /\ retention_data' = Unbound
    /\ raised' = FALSE
    /\ cohort_data' = {}
    /\ windows' = <<>>

\* data['event_type'].unique()
event_types_of(d) == {e.event_type : e \in d.rows}

\* data['date'].min().date() and data['date'].max().date()
min_date_of(d) == DateOf(Min({e.date : e \in d.rows}))
max_date_of(d) == DateOf(CHOOSE x \in {e.date : e \in d.rows} :
                            \A y \in {e.date : e \in d.rows} : x >= y)

\* data['segment'].unique()
segment_values_of(d) == {e.segment : e \in d.rows}

\* the days st.date_input is asked for: those of CsvDates inside
\* [min_value, max_value]
PickDays(d) ==
    {n \in {DaysFromCivil(c[1], c[2], c[3]) : c \in CsvDates} :
        min_date_of(d) <= n /\ n <= max_date_of(d)}

\* what st.multiselect can return: the chosen options, each once, in the
\* order they were chosen
Selections(S) ==
    {q \in UNION {[1..n -> S] : n \in 0..Cardinality(S)} :
        \A i, j \in 1..Len(q) : i # j => q[i] # q[j]}

\* the dicts the Save Cohort Settings button can store for the table d
SettingsFor(d) ==
    [cohort_basis : event_types_of(d),
     cohort_type : {"Daily", "Weekly", "Monthly"},
     retention_event : event_types_of(d),
     retention_type : {"Retention Rate", "Churn Rate"}]

(* upload_data *)
UploadData ==
    /\ NoAnalysis
    /\ uncaught' = ""
    /\ \/ \* no file chosen
          /\ shown' = {}
          /\ UNCHANGED session
       \/ \E file \in CsvFiles(MaxUploadEvents)
                        \cup {MissingColumnFile, UnparseableFile, HeaderOnlyFile} :
            IF ~(RequiredColumns \subseteq file.columns)
            THEN /\ shown' = {"CSV file must contain: customer_id, date, and event_type"}
                 /\ UNCHANGED session
            ELSE IF ToDatetimeRaises(file) \/ StatsRaise(file)
            THEN /\ shown' = {"Error processing file"}
                 /\ data' = None
                 /\ UNCHANGED <<cohort_settings, date_range, segments>>
            ELSE /\ shown' = {}
                 /\ data' = ParseDates(file)
                 /\ UNCHANGED <<cohort_settings, date_range, segments>>

(* cohort_settings *)
CohortSettings ==
    /\ NoAnalysis
    /\ uncaught' = ""
    /\ IF data = None
       THEN /\ shown' = {"Please upload data first."}
            /\ UNCHANGED session
       ELSE /\ shown' = {}
            /\ \/ UNCHANGED session
               \/ /\ cohort_settings' \in SettingsFor(data)
                  /\ UNCHANGED <<data, date_range, segments>>

(* date_range_selection *)
DateRangeSelection ==
    /\ NoAnalysis
    /\ uncaught' = ""
    /\ IF data = None
       THEN /\ shown' = {"Please upload data first."}
            /\ UNCHANGED session
       ELSE \/ /\ shown' = {}
               /\ UNCHANGED session
            \/ \E start_date, end_date \in PickDays(data) :
                 IF start_date <= end_date
                 THEN /\ date_range' = [start |-> start_date, end |-> end_date]
                      /\ shown' = {}
                      /\ UNCHANGED <<data, cohort_settings, segments>>
                 ELSE /\ shown' = {"End date must be after start date."}
                      /\ UNCHANGED session

(* segmentation *)
Segmentation ==
    /\ NoAnalysis
    /\ uncaught' = ""
    /\ IF data = None
       THEN /\ shown' = {"Please upload data first."}
            /\ UNCHANGED session
       ELSE /\ shown' = {}
            /\ IF "segment" \in data.columns
               THEN \/ UNCHANGED session
                    \/ /\ segments' \in Selections(segment_values_of(data))
                       /\ UNCHANGED <<data, cohort_settings, date_range>>
               ELSE /\ segments' = <<"All">>
                    /\ UNCHANGED <<data, cohort_settings, date_range>>

\* a guard that leaves out the test of the segment list
Ready_IgnoresSegments ==
    ~(\/ data = None
      \/ cohort_settings = EmptyDict
      \/ date_range = EmptyDict)

\* the guard of visualization: every step has stored something
Ready ==
    ~(\/ data = None
      \/ cohort_settings = EmptyDict
      \/ date_range = EmptyDict
      \/ segments = EmptyList)

(* visualization *)
Visualization ==
    /\ UNCHANGED session
    /\ IF ~Ready
       THEN /\ NoAnalysis
            /\ shown' = {"Please complete all previous steps before visualization."}
            /\ uncaught' = ""
       ELSE \/ \* the Run Analysis button is not pressed
               /\ NoAnalysis
               /\ shown' = {}
               /\ uncaught' = ""
            \/ \* Run Analysis: create_cohort_data, then `with tab1:` - the name
               \* tab1 is bound nowhere in the script, so the rerun ends there
               \E r \in {create_cohort_data(data, cohort_settings, date_range, segments)} :
                   /\ retention_data' = r.frame
                   /\ raised' = r.raised
                   /\ cohort_data' = r.cohort_data
                   /\ windows' = r.windows
                   /\ shown' = IF r.raised
                               THEN {"An error occurred while processing the data"}
                               ELSE {}
                   /\ uncaught' = "NameError"

(* main: the session state of a new session *)
InitSession ==
    /\ data = None
    /\ cohort_settings = EmptyDict
    /\ date_range = EmptyDict
    /\ segments = EmptyList

InitLocals ==
    /\ retention_data = Unbound
    /\ raised = FALSE
    /\ cohort_data = {}
    /\ windows = <<>>
    /\ shown = {}
    /\ uncaught = ""

\* the session machine: a new session, then any step of the sidebar radio
InitUI == InitSession /\ InitLocals

NextUI ==
    \/ UploadData
    \/ CohortSettings
    \/ DateRangeSelection
    \/ Segmentation
    \/ Visualization

SpecUI == InitUI /\ [][NextUI]_vars

\* the engine on its own: every table of at most MaxEvents rows with a
\* configuration the settings steps store for that table, then the analysis
Init ==
    /\ data \in {ParseDates(f) : f \in CsvFiles(MaxEvents)}
    /\ cohort_settings \in SettingsFor(data)
    /\ \E start_date, end_date \in PickDays(data) :
          /\ start_date <= end_date
          /\ date_range = [start |-> start_date, end |-> end_date]
    /\ IF "segment" \in data.columns
       THEN segments \in Selections(segment_values_of(data)) \ {EmptyList}
       ELSE segments = <<"All">>
    /\ InitLocals

Next == Visualization

Spec == Init /\ [][Next]_vars

(* ============================== properties ============================ *)

\* comparisons of a fraction (positive denominator) with 0 and 1, and equality
FracGeqZero(r) == r[1] >= 0
FracLeqOne(r) == r[1] <= r[2]
FracEq(r, q) == r[1] * q[2] = q[1] * r[2]

\* create_cohort_data was called in this rerun, and what it returned
Ran == retention_data # Unbound
Rows == retention_data.rows
RowIndex == 1..Len(retention_data.rows)

\* the customers that have an event carrying the segment value; everybody
\* for "All"
SegmentCustomers(segment) ==
    IF segment = "All" THEN Customers
    ELSE {c \in Customers :
            \E e \in data.rows : e.customer_id = c /\ e.segment = segment}

\* the customers anchored in the cohort, and those of them in the segment
CohortCustomers(cohort) ==
    {r.customer_id : r \in {x \in cohort_data : x.cohort = cohort}}

Members(segment, cohort) == CohortCustomers(cohort) \cap SegmentCustomers(segment)

\* the basis events of customer c inside the date range
BasisInRange(c) ==
    {e \in data.rows :
        /\ e.customer_id = c
        /\ e.event_type = cohort_settings.cohort_basis
        /\ Timestamp(date_range.start) <= e.date
        /\ e.date <= Timestamp(date_range.end)}

\* customer c has a retention event with lo <= date < hi
RetainedIn(c, lo, hi) ==
    \E e \in data.rows :
        /\ e.customer_id = c
        /\ e.event_type = cohort_settings.retention_event
        /\ lo <= e.date
        /\ e.date < hi

C2_RetainedCount ==
    Ran =>
        \A i \in RowIndex :
            LET row      == Rows[i]
                retained == {c \in Members(row.segment, row.cohort) :
                                RetainedIn(c, windows[i][1], windows[i][2])}
                before   == IF cohort_settings.retention_type = "Churn Rate"
                            THEN OneMinus(row.rate) ELSE row.rate
            IN  /\ row.retained_users = Cardinality(retained)
                /\ row.cohort_size > 0
                /\ FracEq(before, <<row.retained_users, row.cohort_size>>)

\* a record counts a retention event dated after the end of the date range
C2_Witness ==
    /\ Ran
    /\ \E i \in RowIndex :
          /\ Rows[i].retained_users >= 1
          /\ windows[i][1] > Timestamp(date_range.end)

(* C3: for a segment other than "All", cohort_size is the number of cohort *)
(* members with an event of any type and date carrying the segment value,  *)
(* at most the size of the whole cohort, and retained_users counts among   *)
(* those members only; for "All", cohort_size is the whole cohort.         *)
C3_SegmentSizing ==
    Ran =>
        \A i \in RowIndex :
            LET row == Rows[i]
            IN  /\ row.cohort_size = Cardinality(Members(row.segment, row.cohort))
                /\ row.cohort_size <= Cardinality(CohortCustomers(row.cohort))
                /\ row.segment = "All" =>
                      row.cohort_size = Cardinality(CohortCustomers(row.cohort))
                /\ row.retained_users <=
                      Cardinality({c \in Members(row.segment, row.cohort) :
                                      RetainedIn(c, windows[i][1], windows[i][2])})

\* a segment record whose cohort_size is smaller than the whole cohort
C3_Witness ==
    /\ Ran
    /\ \E i \in RowIndex :
          /\ Rows[i].segment # "All"
          /\ Rows[i].cohort_size < Cardinality(CohortCustomers(Rows[i].cohort))

(* C4: every record has 0 <= retained_users <= cohort_size and             *)
(* 0 <= rate <= 1, in Retention Rate and in Churn Rate mode.               *)
C4_Ranges ==
    Ran =>
        \A i \in RowIndex :
            /\ 0 <= Rows[i].retained_users
            /\ Rows[i].retained_users <= Rows[i].cohort_size
            /\ Rows[i].rate[2] > 0
            /\ FracGeqZero(Rows[i].rate)
            /\ FracLeqOne(Rows[i].rate)

\* a Churn Rate run with a record at rate 0 (everybody retained) and a
\* record at rate 1 (nobody retained)
C4_Witness ==
    /\ Ran
    /\ cohort_settings.retention_type = "Churn Rate"
    /\ \E i, j \in RowIndex :
          /\ Rows[i].retained_users = Rows[i].cohort_size
          /\ Rows[i].rate[1] = 0
          /\ Rows[j].retained_users = 0
          /\ Rows[j].rate[1] = Rows[j].rate[2]

\* the cohort keys of this run, and the position of a label in the
\* requested segment list
CohortKeys == {r.cohort : r \in cohort_data}
SegmentPos(segment) == CHOOSE k \in 1..Len(segments) : segments[k] = segment

(* C5: a (segment, cohort) pair with no member in the segment has no       *)
(* record; every other pair of a requested segment and a cohort has        *)
(* exactly 13 records, one for each period 0..12, all with the same        *)
(* cohort_size >= 1; and there are no other records.                       *)
C5_AllOrNothing ==
    (Ran /\ ~raised) =>
        /\ \A i \in RowIndex :
              /\ \E k \in 1..Len(segments) : segments[k] = Rows[i].segment
              /\ Rows[i].cohort \in CohortKeys
        /\ \A k \in 1..Len(segments) : \A cohort \in CohortKeys :
              LET idx == {i \in RowIndex : /\ Rows[i].segment = segments[k]
                                           /\ Rows[i].cohort = cohort}
              IN  IF Members(segments[k], cohort) = {}
                  THEN idx = {}
                  ELSE /\ Cardinality(idx) = NumPeriods
                       /\ \A period \in 0..(NumPeriods - 1) :
                             \E i \in idx : Rows[i].period = period
                       /\ \A i, j \in idx :
                             /\ Rows[i].cohort_size = Rows[j].cohort_size
                             /\ Rows[i].cohort_size >= 1

\* a run in which one pair of a requested segment and a cohort is empty
\* and another pair has its records
C5_Witness ==
    /\ Ran
    /\ Rows # <<>>
    /\ \E k \in 1..Len(segments) : \E cohort \in CohortKeys :
          Members(segments[k], cohort) = {}

\* ts is the first instant of a day
IsMidnight(ts) == ts % 24 = 0

\* ts is the first instant of the first day of a calendar month
IsMonthStart(ts) == IsMidnight(ts) /\ CivilFromDays(ts \div 24)[3] = 1

\* ts is the first instant of the cohort period that holds the anchor: its
\* calendar day, its Monday..Sunday week (day 0 is a Monday), its month
StartsPeriodOf(cohort_type, ts, anchor) ==
    IF cohort_type = "Daily"
    THEN IsMidnight(ts) /\ ts <= anchor /\ anchor < ts + 24
    ELSE IF cohort_type = "Weekly"
    THEN IsMidnight(ts) /\ (ts \div 24) % 7 = 0 /\ ts <= anchor /\ anchor < ts + 7 * 24
    ELSE /\ IsMonthStart(ts)
         /\ CivilFromDays(ts \div 24)[1] = CivilFromDays(anchor \div 24)[1]
         /\ CivilFromDays(ts \div 24)[2] = CivilFromDays(anchor \div 24)[2]

(* C6: the windows of one cohort are a chain: window 0 starts at the start *)
(* of the cohort's day, Monday-start week or month; the end of window i is *)
(* the start of window i+1 for i in 0..11; a Daily window is one day and a *)
(* Weekly window seven days long; a Monthly window runs from the first day *)
(* of a calendar month to the first day of the next, so it is as long as   *)
(* that month.                                                             *)
C6_WindowChain ==
    Ran =>
        \A i \in RowIndex :
            LET lo == windows[i][1]
                hi == windows[i][2]
                cohort_type == cohort_settings.cohort_type
            IN  /\ lo < hi
                /\ Rows[i].period = 0 =>
                      \A r \in cohort_data :
                          r.cohort = Rows[i].cohort => StartsPeriodOf(cohort_type, lo, r.date)
                /\ Rows[i].period < NumPeriods - 1 =>
                      /\ i + 1 \in RowIndex
                      /\ Rows[i + 1].segment = Rows[i].segment
                      /\ Rows[i + 1].cohort = Rows[i].cohort
                      /\ Rows[i + 1].period = Rows[i].period + 1
                      /\ windows[i + 1][1] = hi
                /\ cohort_type = "Daily" => hi - lo = 24
                /\ cohort_type = "Weekly" => hi - lo = 7 * 24
                /\ cohort_type \notin {"Daily", "Weekly"} =>
                      /\ IsMonthStart(lo)
                      /\ IsMonthStart(hi)
                      /\ hi - lo = 24 * DaysInMonth(CivilFromDays(lo \div 24)[1],
                                                    CivilFromDays(lo \div 24)[2])

\* a Monthly run whose windows include months of 28, 29, 30 and 31 days
C6_Witness ==
    /\ Ran
    /\ cohort_settings.cohort_type = "Monthly"
    /\ \A n \in {28, 29, 30, 31} :
          \E i \in RowIndex : windows[i][2] - windows[i][1] = 24 * n

\* the other retention_type
OtherType(retention_type) ==
    IF retention_type = "Churn Rate" THEN "Retention Rate" ELSE "Churn Rate"

(* C7: a second run on the same data, date range and segments, with the    *)
(* settings changed in retention_type only, returns the same (segment,     *)
(* cohort, period) triples in the same rows with the same cohort_size and  *)
(* retained_users, and the Churn Rate run's rate is 1 minus the Retention  *)
(* Rate run's rate.                                                        *)
C7_ChurnDuality ==
    Ran =>
        LET other == create_cohort_data(
                         data,
                         [cohort_settings EXCEPT
                             !.retention_type = OtherType(cohort_settings.retention_type)],
                         date_range, segments).frame.rows
            Dual(mine, theirs) ==
                /\ Len(theirs) = Len(mine)
                /\ \A i \in 1..Len(mine) :
                      /\ theirs[i].segment = mine[i].segment
                      /\ theirs[i].cohort = mine[i].cohort
                      /\ theirs[i].period = mine[i].period
                      /\ theirs[i].cohort_size = mine[i].cohort_size
                      /\ theirs[i].retained_users = mine[i].retained_users
                      /\ FracEq(theirs[i].rate, OneMinus(mine[i].rate))
        IN  Dual(Rows, other)

\* a Churn Rate run with a record in which somebody, and a record in which
\* nobody, is retained
C7_Witness ==
    /\ Ran
    /\ cohort_settings.retention_type = "Churn Rate"
    /\ \E i, j \in RowIndex :
          /\ Rows[i].retained_users >= 1
          /\ Rows[j].retained_users = 0

(* C8: the rows are ordered segment outer, cohort middle, period inner:    *)
(* segments in the order of the requested list; inside a segment the       *)
(* cohorts in ascending key order, which is the order of their starts;     *)
(* inside a cohort the periods ascending.                                  *)
C8_RowOrder ==
    Ran =>
        \A i, j \in RowIndex :
            i < j =>
                /\ SegmentPos(Rows[i].segment) <= SegmentPos(Rows[j].segment)
                /\ Rows[i].segment = Rows[j].segment =>
                      /\ ~StrLess(Rows[j].cohort, Rows[i].cohort)
                      /\ Rows[i].cohort = Rows[j].cohort =>
                            Rows[i].period < Rows[j].period
                      /\ Rows[i].cohort # Rows[j].cohort =>
                            /\ StrLess(Rows[i].cohort, Rows[j].cohort)
                            /\ (Rows[i].period = 0 /\ Rows[j].period = 0) =>
                                  windows[i][1] < windows[j][1]

\* a segment block with two cohorts
C8_Witness ==
    /\ Ran
    /\ \E i, j \in RowIndex :
          /\ i < j
          /\ Rows[i].segment = Rows[j].segment
          /\ Rows[i].cohort # Rows[j].cohort

(* C9: when no cohort reaches positive size, create_cohort_data returns an *)
(* empty result without failing, and the caller tells that outcome from a  *)
(* failure inside create_cohort_data: an empty result of a run that did    *)
(* not fail is rendered as "Insufficient data" and the rerun ends          *)
(* normally, and a run that failed does not return the frame that a run    *)
(* without cohorts returns.                                                *)
C9_EmptyResultDistinguishable ==
    (Ran /\ Rows = <<>>) =>
        IF raised
        THEN retention_data # DataFrame(<<>>)
        ELSE /\ "Insufficient data to display the line chart." \in shown
             /\ uncaught = ""

(* C10: whenever visualization calls create_cohort_data, the saved         *)
(* configuration is valid for the loaded data: cohort_basis and            *)
(* retention_event are event types of the data, start and end lie within   *)
(* the data's date span, and every saved segment is a segment value of the *)
(* data, or the list is ["All"] when the data has no segment column.       *)
C10_ConfigurationValid ==
    Ran =>
        /\ cohort_settings.cohort_basis \in event_types_of(data)
        /\ cohort_settings.retention_event \in event_types_of(data)
        /\ min_date_of(data) <= date_range.start
        /\ date_range.start <= max_date_of(data)
        /\ min_date_of(data) <= date_range.end
        /\ date_range.end <= max_date_of(data)
        /\ IF "segment" \in data.columns
           THEN \A k \in 1..Len(segments) : segments[k] \in segment_values_of(data)
           ELSE segments = <<"All">>

\* the data, the cohort settings, the date range and a non-empty segment
\* list are all in the session
AllStored ==
    /\ data # None
    /\ cohort_settings # EmptyDict
    /\ date_range # EmptyDict
    /\ segments # EmptyList

(* C11: in every reachable session state, a rerun calls create_cohort_data *)
(* only if the data, the cohort settings, the date range and a non-empty   *)
(* segment list are all stored in the session; and when one of them is     *)
(* missing, the visualization step shows the "complete all previous steps" *)
(* warning and returns: no analysis is run and no exception leaves it.     *)
C11_GuardedAnalysis ==
    [][/\ (retention_data' # Unbound) => AllStored
       /\ (~AllStored /\ Visualization) =>
              /\ shown' = {"Please complete all previous steps before visualization."}
              /\ retention_data' = Unbound
              /\ uncaught' = ""]_vars

\* visualization has shown the warning in a session whose data a failed
\* upload has reset to None after the three other steps were saved
C11_Witness ==
    /\ shown = {"Please complete all previous steps before visualization."}
    /\ data = None
    /\ cohort_settings # EmptyDict
    /\ date_range # EmptyDict
    /\ segments # EmptyList
    /\ retention_data = Unbound
    /\ uncaught = ""

====
